---- MODULE Spec2Model ----
(***************************************************************************)
(* WeedGroove (src/src/pages/Index.tsx): the game state held by the        *)
(* WeedGroove component, its event handlers, its three effects (load,      *)
(* save, tick) and the localStorage slot they read and write.              *)
(*                                                                         *)
(* Units.  gameTime, plantedAt, createdAt and harvestedAt are in units of  *)
(* 60000 ms: every clock value the program produces is Date.now() at mount *)
(* plus a multiple of 60000 (a tick adds 60000, sleepHours(h) adds         *)
(* h*3600000), so (gameTime - plantedAt)/1000/60 is the difference of the  *)
(* two values in these units.  progress is kept exactly, in units of       *)
(* 1/ProgressScale percent.                                                *)
(*                                                                         *)
(* Identifiers.  Date.now().toString() is modelled as a fresh identifier   *)
(* per collection (identifiers are only compared inside one collection).   *)
(***************************************************************************)
EXTENDS Integers, Sequences, FiniteSets, TLC

VARIABLES
  plants,         \* useState<Plant[]>
  buds,           \* useState<BudItem[]>
  seeds,          \* useState<SeedItem[]>
  gameStats,      \* useState<GameStats>
  gameTime,       \* useState(Date.now())
  selectedSeed1,  \* useState<SeedItem | null>: <<>> is null, <<s>> a snapshot
  selectedSeed2,
  storage,        \* localStorage['weedgroove-save']: <<>> absent, <<blob>>
  phase,          \* "boot" (rendered, effects not run), "loading", "run"
  pending,        \* state updates queued by the load effect: <<>> or <<data>>
  nextSeedId,     \* fresh identifiers (Date.now().toString())
  nextPlantId,
  nextBudId

vars == <<plants, buds, seeds, gameStats, gameTime, selectedSeed1, selectedSeed2,
          storage, phase, pending, nextSeedId, nextPlantId, nextBudId>>

game == <<plants, buds, seeds, gameStats, gameTime>>

ids == <<nextSeedId, nextPlantId, nextBudId>>

-----------------------------------------------------------------------------
(* Bounds of the model *)

\* Spec: ticks, and units of six hours slept
MaxTicks == 1

MaxSleepUnits == 2

\* seeds, plants and bud items created in one run
MaxCreated == 4

\* size of a purchased stack
MaxQty == 1

\* catalog entries that are bought
NumStrains == 2

\* SpecGrow: one plant followed through its growth window
GrowMaxTicks == 25

GrowMaxSleepUnits == 1

GrowMaxCreated == 3

GrowNumStrains == 3

\* seeds are bought in the first GrowMaxBuyClock minutes
GrowMaxBuyClock == 0

\* loci that mutate in one crossbreed
MaxMutations == 0

\* SpecShop: the economy, until the money is spent
ShopMaxCreated == 5

\* size of a purchased stack
ShopMaxQty == 5

ShopMaxTicks == 1

ShopMaxSleepUnits == 2

\* largest Math.floor(Math.random() * 3) drawn for a trait
MaxRoll == 0

\* SpecBreed: crossbreeds over every random draw
BreedMaxCreated == 3

\* size of a purchased stack
BreedMaxQty == 1

\* catalog entries that are bought
BreedNumStrains == 2

\* crossbreeds in one run
BreedMaxAttempts == 1

\* SpecLive: ticks under fairness, per six hours of the clock
LiveMaxTicks == 30

LiveMaxSleepUnits == 1

LiveMaxCreated == 4

\* seeds are bought in the first LiveMaxBuyClock minutes
LiveMaxBuyClock == 0

\* SpecMerge: a bought and a bred seed of one name, grown and harvested
MergeMaxCreated == 5

\* size of a purchased stack
MergeMaxQty == 2

MergeMaxTicks == 1

MergeMaxSleepUnits == 2

\* seeds are bought and bred in the first MergeMaxBuyClock minutes
MergeMaxBuyClock == 0

-----------------------------------------------------------------------------
(* Program constants *)

Epoch == 1000

ProgressScale == 27720

TickIncrement == 1

\* hours * 60 * 60 * 1000 ms, in units of 60000 ms
\* faulty variant of SleepIncrement: minutes for hours
SleepIncrementMinutes(hours) == hours

SleepIncrement(hours) == hours * 60

StartMoney == 1000

ConvertCost == 100

\* part_000: "buy and plant" from the catalog
CatalogPlantCost == 50

CheapCost == 100

PremiumCost == 500

FlatPrice == 50

Loci == {"yield", "speed", "potency"}

G(y, s, p) == [yield |-> y, speed |-> s, potency |-> p]

storeStrains ==
  << [name |-> <<"OG", "Kush">>, price |-> 100,
      genetics |-> G("Aa", "BB", "AA"), traits |-> G(6, 9, 9)],
     [name |-> <<"Lemon", "Haze">>, price |-> 120,
      genetics |-> G("AA", "Aa", "Bb"), traits |-> G(8, 6, 5)],
     [name |-> <<"Northern", "Lights">>, price |-> 80,
      genetics |-> G("Bb", "AA", "Aa"), traits |-> G(4, 10, 7)],
     [name |-> <<"White", "Widow">>, price |-> 150,
      genetics |-> G("AA", "Bb", "AA"), traits |-> G(9, 5, 8)],
     [name |-> <<"Blue", "Dream">>, price |-> 90,
      genetics |-> G("Aa", "Aa", "Bb"), traits |-> G(7, 6, 4)],
     [name |-> <<"Gorilla", "Glue">>, price |-> 200,
      genetics |-> G("AA", "aa", "AA"), traits |-> G(10, 3, 10)] >>

initialStats ==
  [money |-> StartMoney, totalHarvested |-> 0, bestYield |-> 0, bestPotency |-> 0,
   experimentsCount |-> 0, crossbreedingAttempts |-> 0]

-----------------------------------------------------------------------------
(* Array helpers *)

Range(s) == {s[i] : i \in DOMAIN s}

\* Array.prototype.filter
Filter(s, Keep(_)) == SelectSeq(s, Keep)

Map(s, F(_)) == [i \in DOMAIN s |-> F(s[i])]

\* Array.prototype.find: <<>> when nothing matches, else <<first match>>
Find(s, P(_)) ==
  IF \E i \in DOMAIN s : P(s[i])
  THEN <<s[CHOOSE i \in DOMAIN s : P(s[i]) /\ \A j \in 1..(i-1) : ~P(s[j])]>>
  ELSE <<>>

\* faulty variant of Max: the latest value replaces the best
MaxLatest(a, b) == b

Max(a, b) == IF a >= b THEN a ELSE b

-----------------------------------------------------------------------------
(* Persistence: the save effect and the load effect *)

Snapshot == [plants |-> plants, buds |-> buds, seeds |-> seeds,
             gameStats |-> gameStats, gameTime |-> gameTime]

\* faulty variant of Stringify: the bud items are saved under another key
StringifyInventory(snap) ==
  [plants |-> snap.plants, inventory |-> snap.buds, seeds |-> snap.seeds,
   gameStats |-> snap.gameStats, gameTime |-> snap.gameTime]

\* JSON.stringify(gameData): an object with these five keys.  Every value is
\* a finite number, a string, a boolean, an array or a plain object, which
\* JSON.stringify / JSON.parse carry over unchanged.
Stringify(snap) ==
  [plants |-> snap.plants, buds |-> snap.buds, seeds |-> snap.seeds,
   gameStats |-> snap.gameStats, gameTime |-> snap.gameTime]

\* data.<key> || dflt for an array or object value: undefined when the key is
\* missing, never falsy otherwise
OrDefault(data, k, dflt) == IF k \in DOMAIN data THEN data[k] ELSE dflt

\* data.gameTime || Date.now(): 0 is falsy too
OrNow(data, now) ==
  IF "gameTime" \in DOMAIN data /\ data["gameTime"] # 0 THEN data["gameTime"] ELSE now

\* What the load effect's five setters leave in the state
Loaded(data, stats, now) ==
  [plants |-> OrDefault(data, "plants", <<>>),
   buds |-> OrDefault(data, "buds", <<>>),
   seeds |-> OrDefault(data, "seeds", <<>>),
   gameStats |-> OrDefault(data, "gameStats", stats),
   gameTime |-> OrNow(data, now)]

-----------------------------------------------------------------------------
(* Genetics *)

\* 8/5/2 + Math.floor(Math.random() * 3); roll is the three random draws
calculateTraits(genetics, roll) ==
  [yield |-> IF genetics.yield = "AA" THEN 8 + roll.yield
             ELSE IF genetics.yield = "Aa" THEN 5 + roll.yield
             ELSE 2 + roll.yield,
   speed |-> IF genetics.speed = "BB" THEN 8 + roll.speed
             ELSE IF genetics.speed = "Bb" THEN 5 + roll.speed
             ELSE 2 + roll.speed,
   potency |-> IF genetics.potency = "CC" THEN 8 + roll.potency
               ELSE IF genetics.potency = "Cc" THEN 5 + roll.potency
               ELSE 2 + roll.potency]

getTraitRange(gene) ==
  CASE gene \in {"AA", "BB", "CC"} -> <<8, 10>>
    [] gene \in {"Aa", "Bb", "Cc"} -> <<5, 7>>
    [] gene \in {"aa", "bb", "cc"} -> <<2, 4>>
    [] OTHER -> <<1, 10>>

\* the three `mutations` arrays of crossbreedSeeds
mutations(locus) ==
  CASE locus = "yield" -> <<"AA", "Aa", "aa">>
    [] locus = "speed" -> <<"BB", "Bb", "bb">>
    [] locus = "potency" -> <<"CC", "Cc", "cc">>

\* word.toLowerCase(), then charAt(0).toUpperCase() + slice(1), on the words
\* that occur in names: every catalog word but "OG" is already in that form
Capitalized(word) == IF word \in {"OG", "og", "Og"} THEN "Og" ELSE word

generateHybridName(parent1, parent2) ==
  <<Capitalized(parent1[1]), Capitalized(parent2[Len(parent2)])>>

\* The random draws of one crossbreed: pick[l] is Math.random() < 0.5,
\* mut[l] is 0 (no mutation) or the index drawn from `mutations`, roll[l] is
\* Math.floor(Math.random() * 3)
Draws == [pick : [Loci -> BOOLEAN], mut : [Loci -> 0..3], roll : [Loci -> 0..2]]

\* faulty variant of hybridLocus: every locus mutates into the yield tokens
hybridLocusYieldTier(s1, s2, d, l) ==
  IF d.mut[l] # 0 THEN mutations("yield")[d.mut[l]]
  ELSE IF d.pick[l] THEN s1.genetics[l] ELSE s2.genetics[l]

\* faulty variant of hybridLocus: an unmutated locus is always parent 1's
hybridLocusFirstParent(s1, s2, d, l) ==
  IF d.mut[l] # 0 THEN mutations(l)[d.mut[l]] ELSE s1.genetics[l]

hybridLocus(s1, s2, d, l) ==
  IF d.mut[l] # 0 THEN mutations(l)[d.mut[l]]
  ELSE IF d.pick[l] THEN s1.genetics[l] ELSE s2.genetics[l]

hybridGenetics(s1, s2, d) ==
  [yield |-> hybridLocus(s1, s2, d, "yield"),
   speed |-> hybridLocus(s1, s2, d, "speed"),
   potency |-> hybridLocus(s1, s2, d, "potency")]

-----------------------------------------------------------------------------
(* Growth *)

\* faulty variant of newProgress: no Math.min(100, ...)
newProgressUncapped(timePassed, speed) ==
  (timePassed * 100 * ProgressScale) \div (120 - speed * 10)

\* (timePassed / (120 - speed * 10)) * 100, capped at 100, in units of
\* 1/ProgressScale percent; timePassed in minutes
newProgress(timePassed, speed) ==
  LET window == 120 - speed * 10
  IN IF timePassed * 100 >= 100 * window THEN 100 * ProgressScale
     ELSE (timePassed * 100 * ProgressScale) \div window

\* faulty variant of newStage: the two upper stages are exchanged
newStageSwapped(stage, progress) ==
  IF progress >= 80 * ProgressScale THEN "flowering"
  ELSE IF progress >= 60 * ProgressScale THEN "harvest"
  ELSE IF progress >= 30 * ProgressScale THEN "vegetative"
  ELSE IF progress >= 10 * ProgressScale THEN "sprout"
  ELSE stage

\* faulty variant of newStage: > for >= at the harvest threshold
newStageStrict(stage, progress) ==
  IF progress > 80 * ProgressScale THEN "harvest"
  ELSE IF progress >= 60 * ProgressScale THEN "flowering"
  ELSE IF progress >= 30 * ProgressScale THEN "vegetative"
  ELSE IF progress >= 10 * ProgressScale THEN "sprout"
  ELSE stage

newStage(stage, progress) ==
  IF progress >= 80 * ProgressScale THEN "harvest"
  ELSE IF progress >= 60 * ProgressScale THEN "flowering"
  ELSE IF progress >= 30 * ProgressScale THEN "vegetative"
  ELSE IF progress >= 10 * ProgressScale THEN "sprout"
  ELSE stage

\* faulty variant of grow: the plant is planted anew at every tick
growReplanted(plant, clock) ==
  LET p == newProgress(clock - plant.plantedAt, plant.traits.speed)
  IN [plant EXCEPT !.progress = p, !.stage = newStage(plant.stage, p),
                   !.plantedAt = clock]

\* the body of the tick's plants.map; clock is the gameTime the interval
\* callback closed over
grow(plant, clock) ==
  LET p == newProgress(clock - plant.plantedAt, plant.traits.speed)
  IN [plant EXCEPT !.progress = p, !.stage = newStage(plant.stage, p)]

-----------------------------------------------------------------------------
(* Effects *)

\* faulty variant of Save: the effect writes the values of the previous render
SaveBeforeUpdate == storage' = <<Stringify(Snapshot)>>

\* the save effect, run after a render that changed one of its dependencies
Save == storage' = <<Stringify([plants |-> plants', buds |-> buds', seeds |-> seeds',
                                gameStats |-> gameStats', gameTime |-> gameTime'])>>

Created == (nextSeedId - 1) + (nextPlantId - 1) + (nextBudId - 1)

TicksDone == (gameTime - Epoch) % SleepIncrement(6)

SleepUnitsDone == (gameTime - Epoch) \div SleepIncrement(6)

\* Slot contents that make the load effect throw: text that JSON.parse
\* rejects (SyntaxError), and the text "null", which parses to null so that
\* data.plants throws (TypeError)
NotJson == [error |-> "SyntaxError"]

JsonNull == [error |-> "TypeError"]

Throws(text) == "error" \in DOMAIN text

\* First render done, effects run in order: load, save, tick.  An exception
\* in the load effect is not caught: React unmounts the component; whether
\* the effects after the throwing one still run depends on the React
\* version, so the slot is either untouched or overwritten.
Mount ==
  /\ phase = "boot"
  /\ UNCHANGED <<game, selectedSeed1, selectedSeed2, ids>>
  /\ IF storage = <<>>
     THEN /\ phase' = "run"
          /\ pending' = <<>>
          /\ Save
     ELSE IF Throws(storage[1])
     THEN /\ phase' = "crashed"
          /\ pending' = <<>>
          /\ \/ storage' = storage
             \/ Save
     ELSE /\ phase' = "loading"
          /\ pending' = <<storage[1]>>
          /\ Save

\* The render that applies the load effect's updates, and the save effect
\* after it.
Rerender ==
  /\ phase = "loading"
  /\ LET st == Loaded(pending[1], gameStats, Epoch)
     IN /\ plants' = st.plants
        /\ buds' = st.buds
        /\ seeds' = st.seeds
        /\ gameStats' = st.gameStats
        /\ gameTime' = st.gameTime
  /\ phase' = "run"
  /\ pending' = <<>>
  /\ UNCHANGED <<selectedSeed1, selectedSeed2, ids>>
  /\ Save

\* The page is closed and opened again: a new component, the same storage.
Reload ==
  /\ phase = "run"
  /\ plants' = <<>>
  /\ buds' = <<>>
  /\ seeds' = <<>>
  /\ gameStats' = initialStats
  /\ gameTime' = Epoch
  /\ selectedSeed1' = <<>>
  /\ selectedSeed2' = <<>>
  /\ phase' = "boot"
  /\ UNCHANGED <<storage, pending, ids>>

\* faulty variant of Tick: the clock advances, the plants are not updated
TickClockOnly ==
  /\ phase = "run"
  /\ gameTime' = gameTime + TickIncrement
  /\ UNCHANGED <<plants, buds, seeds, gameStats, selectedSeed1, selectedSeed2, phase,
                 pending, ids>>
  /\ Save

\* The interval callback.  The effect is re-armed at every change of
\* gameTime, so the callback's gameTime is the value before this tick.
Tick ==
  /\ phase = "run"
  /\ gameTime' = gameTime + TickIncrement
  /\ plants' = Map(plants, LAMBDA plant : grow(plant, gameTime))
  /\ UNCHANGED <<buds, seeds, gameStats, selectedSeed1, selectedSeed2, phase, pending, ids>>
  /\ Save

sleepHours(hours) ==
  /\ phase = "run"
  /\ gameTime' = gameTime + SleepIncrement(hours)
  /\ UNCHANGED <<plants, buds, seeds, gameStats, selectedSeed1, selectedSeed2, phase,
                 pending, ids>>
  /\ Save

-----------------------------------------------------------------------------
(* Event handlers.  A handler that returns early sets no state: no render, *)
(* no save.                                                                *)

Rejected == UNCHANGED vars

\* faulty variant of cannotAfford: the price is not compared
cannotAffordDebt(price) == gameStats.money < 0

\* faulty variant of cannotAfford: every purchase goes through
cannotAffordNever(price) == FALSE

\* gameStats.money < strain.price
cannotAfford(price) == gameStats.money < price

\* faulty variant of existingStack: no stack is looked for
existingStackNone(prev, strain) == <<>>

\* prev.find(s => s.name === strain.name && s.isKnownGenetics)
existingStack(prev, strain) ==
  Find(prev, LAMBDA s : s.name = strain.name /\ s.isKnownGenetics)

buySeed(i) ==
  LET strain == storeStrains[i]
      existing == existingStack(seeds, strain)
      newSeed == [id |-> nextSeedId, name |-> strain.name, quantity |-> 1,
                  genetics |-> strain.genetics, traits |-> strain.traits,
                  isKnownGenetics |-> TRUE, createdAt |-> gameTime]
  IN /\ phase = "run"
     /\ IF cannotAfford(strain.price)
        THEN Rejected
        ELSE /\ IF existing # <<>>
                THEN /\ seeds' = Map(seeds, LAMBDA s :
                                       IF s.id = existing[1].id
                                       THEN [s EXCEPT !.quantity = s.quantity + 1]
                                       ELSE s)
                     /\ nextSeedId' = nextSeedId
                ELSE /\ seeds' = Append(seeds, newSeed)
                     /\ nextSeedId' = nextSeedId + 1
             /\ gameStats' = [gameStats EXCEPT !.money = gameStats.money - strain.price]
             /\ UNCHANGED <<plants, buds, gameTime, selectedSeed1, selectedSeed2, phase,
                            pending, nextPlantId, nextBudId>>
             /\ Save

\* faulty variant of takeOne: the whole stack is taken
takeOneWholeStack(prev, seedId) == Filter(prev, LAMBDA s : s.id # seedId)

\* faulty variant of takeOne: an emptied stack is kept
takeOneKeepEmpty(prev, seedId) ==
  Map(prev, LAMBDA s : IF s.id = seedId THEN [s EXCEPT !.quantity = s.quantity - 1]
                       ELSE s)

\* prev.map(s => s.id === seedId ? {...s, quantity: s.quantity - 1} : s)
\*     .filter(s => s.quantity > 0)
takeOne(prev, seedId) ==
  Filter(Map(prev, LAMBDA s :
               IF s.id = seedId THEN [s EXCEPT !.quantity = s.quantity - 1] ELSE s),
         LAMBDA s : s.quantity > 0)

plantSeed(seedId) ==
  LET seed == Find(seeds, LAMBDA s : s.id = seedId)
  IN /\ phase = "run"
     /\ IF seed = <<>> \/ seed[1].quantity < 1
        THEN Rejected
        ELSE /\ plants' = Append(plants,
                            [id |-> nextPlantId, name |-> seed[1].name, stage |-> "seed",
                             progress |-> 0, genetics |-> seed[1].genetics,
                             traits |-> seed[1].traits, plantedAt |-> gameTime])
             /\ seeds' = takeOne(seeds, seedId)
             /\ nextPlantId' = nextPlantId + 1
             /\ UNCHANGED <<buds, gameStats, gameTime, selectedSeed1, selectedSeed2,
                            phase, pending, nextSeedId, nextBudId>>
             /\ Save

\* faulty variant of notHarvestable: the stage is not looked at
notHarvestableAbsentOnly(plant) == plant = <<>>

\* !plant || plant.stage !== 'harvest'
notHarvestable(plant) == plant = <<>> \/ plant[1].stage # "harvest"

\* faulty variant of stackBuds: the item of that name is replaced by the new
\* item with the summed quantity
stackBudsByName(prev, pl, budItem) ==
  IF \E i \in DOMAIN prev : prev[i].name = pl.name
  THEN Map(prev, LAMBDA item :
             IF item.name = pl.name
             THEN [budItem EXCEPT !.id = item.id,
                                  !.quantity = item.quantity + pl.traits.yield]
             ELSE item)
  ELSE Append(prev, budItem)

\* the setBuds updater of harvestPlant
stackBuds(prev, pl, budItem) ==
  LET existing == Find(prev, LAMBDA item : item.name = pl.name /\ ~item.isResearched)
  IN IF existing # <<>>
     THEN Map(prev, LAMBDA item :
                IF item.id = existing[1].id
                THEN [item EXCEPT !.quantity = item.quantity + pl.traits.yield]
                ELSE item)
     ELSE Append(prev, budItem)

harvestPlant(plantId) ==
  LET plant == Find(plants, LAMBDA p : p.id = plantId)
  IN /\ phase = "run"
     /\ IF notHarvestable(plant)
        THEN Rejected
        ELSE LET pl == plant[1]
                 budItem == [id |-> nextBudId, name |-> pl.name,
                             quantity |-> pl.traits.yield, genetics |-> pl.genetics,
                             traits |-> pl.traits, isResearched |-> FALSE,
                             harvestedAt |-> gameTime]
                 existing == Find(buds, LAMBDA item :
                                    item.name = pl.name /\ ~item.isResearched)
             IN /\ buds' = stackBuds(buds, pl, budItem)
                /\ nextBudId' = IF existing # <<>> THEN nextBudId ELSE nextBudId + 1
                /\ gameStats' = [gameStats EXCEPT
                     !.totalHarvested = gameStats.totalHarvested + 1,
                     !.bestYield = Max(gameStats.bestYield, pl.traits.yield),
                     !.bestPotency = Max(gameStats.bestPotency, pl.traits.potency)]
                /\ plants' = Filter(plants, LAMBDA p : p.id # plantId)
                /\ UNCHANGED <<seeds, gameTime, selectedSeed1, selectedSeed2, phase,
                               pending, nextSeedId, nextPlantId>>
                /\ Save

\* faulty variant of basePrice: the factor 10 is left out
basePriceNoFactor(item) ==
  IF item.isResearched THEN item.traits.yield * item.traits.potency ELSE FlatPrice

basePrice(item) ==
  IF item.isResearched THEN item.traits.yield * item.traits.potency * 10 ELSE FlatPrice

sellBuds(itemId) ==
  LET item == Find(buds, LAMBDA i : i.id = itemId)
  IN /\ phase = "run"
     /\ IF item = <<>>
        THEN Rejected
        ELSE /\ gameStats' = [gameStats EXCEPT
                  !.money = gameStats.money + basePrice(item[1]) * item[1].quantity]
             /\ buds' = Filter(buds, LAMBDA i : i.id # itemId)
             /\ UNCHANGED <<plants, seeds, gameTime, selectedSeed1, selectedSeed2, phase,
                            pending, ids>>
             /\ Save

\* faulty variant of seedsFromBuds: one seed per unit
seedsFromBudsAll(quantity) == quantity

\* Math.floor(item.quantity / 2)
seedsFromBuds(quantity) == quantity \div 2

convertBudsToSeeds(itemId) ==
  LET item == Find(buds, LAMBDA i : i.id = itemId)
  IN /\ phase = "run"
     /\ IF item = <<>> \/ gameStats.money < ConvertCost
        THEN Rejected
        ELSE /\ seeds' = Append(seeds,
                           [id |-> nextSeedId, name |-> Append(item[1].name, "(semena)"),
                            quantity |-> seedsFromBuds(item[1].quantity),
                            genetics |-> item[1].genetics, traits |-> item[1].traits,
                            isKnownGenetics |-> item[1].isResearched,
                            createdAt |-> gameTime])
             /\ buds' = Filter(buds, LAMBDA i : i.id # itemId)
             /\ gameStats' = [gameStats EXCEPT !.money = gameStats.money - ConvertCost]
             /\ nextSeedId' = nextSeedId + 1
             /\ UNCHANGED <<plants, gameTime, selectedSeed1, selectedSeed2, phase,
                            pending, nextPlantId, nextBudId>>
             /\ Save

\* faulty variant of labCost: one price for both labs
labCostFlat(labType) == CheapCost

\* labType === 'cheap' ? 100 : 500
labCost(labType) == IF labType = "cheap" THEN CheapCost ELSE PremiumCost

researchBuds(itemId, labType) ==
  LET item == Find(buds, LAMBDA i : i.id = itemId)
      cost == labCost(labType)
  IN /\ phase = "run"
     /\ IF item = <<>> \/ item[1].isResearched \/ gameStats.money < cost
        THEN Rejected
        ELSE /\ buds' = Map(buds, LAMBDA i :
                              IF i.id = itemId THEN [i EXCEPT !.isResearched = TRUE]
                              ELSE i)
             /\ gameStats' = [gameStats EXCEPT
                  !.money = gameStats.money - cost,
                  !.experimentsCount = gameStats.experimentsCount + 1]
             /\ UNCHANGED <<plants, seeds, gameTime, selectedSeed1, selectedSeed2, phase,
                            pending, ids>>
             /\ Save

\* Parent 1's Select, shown while no parent 1 is selected; it lists
\* seeds.filter(s => s.quantity > 0) and stores the SeedItem found
selectSeed1(value) ==
  /\ phase = "run"
  /\ selectedSeed1 = <<>>
  /\ \E i \in DOMAIN seeds :
       /\ seeds[i].quantity > 0
       /\ seeds[i].id = value
  /\ selectedSeed1' = Find(seeds, LAMBDA s : s.id = value)
  /\ UNCHANGED <<game, selectedSeed2, storage, phase, pending, ids>>

\* Parent 2's Select lists the seeds other than parent 1
selectSeed2(value) ==
  /\ phase = "run"
  /\ selectedSeed2 = <<>>
  /\ \E i \in DOMAIN seeds :
       /\ seeds[i].quantity > 0
       /\ selectedSeed1 # <<>> => seeds[i].id # selectedSeed1[1].id
       /\ seeds[i].id = value
  /\ selectedSeed2' = Find(seeds, LAMBDA s : s.id = value)
  /\ UNCHANGED <<game, selectedSeed1, storage, phase, pending, ids>>

\* the two "remove" buttons
clearSeed1 ==
  /\ phase = "run"
  /\ selectedSeed1 # <<>>
  /\ selectedSeed1' = <<>>
  /\ UNCHANGED <<game, selectedSeed2, storage, phase, pending, ids>>

clearSeed2 ==
  /\ phase = "run"
  /\ selectedSeed2 # <<>>
  /\ selectedSeed2' = <<>>
  /\ UNCHANGED <<game, selectedSeed1, storage, phase, pending, ids>>

\* faulty variant of countExperiment: only the attempts are counted
countAttemptOnly(prev) ==
  [prev EXCEPT !.crossbreedingAttempts = prev.crossbreedingAttempts + 1]

\* the setGameStats updater of crossbreedSeeds
countExperiment(prev) ==
  [prev EXCEPT !.crossbreedingAttempts = prev.crossbreedingAttempts + 1,
               !.experimentsCount = prev.experimentsCount + 1]

crossbreedSeeds(d) ==
  /\ phase = "run"
  /\ IF \/ selectedSeed1 = <<>>
        \/ selectedSeed2 = <<>>
        \/ selectedSeed1[1].quantity < 1
        \/ selectedSeed2[1].quantity < 1
     THEN Rejected
     ELSE LET s1 == selectedSeed1[1]
              s2 == selectedSeed2[1]
              genetics == hybridGenetics(s1, s2, d)
              newSeed == [id |-> nextSeedId, name |-> generateHybridName(s1.name, s2.name),
                          quantity |-> 1, genetics |-> genetics,
                          traits |-> calculateTraits(genetics, d.roll),
                          isKnownGenetics |-> FALSE, createdAt |-> gameTime]
              consumed == Filter(Map(seeds, LAMBDA seed :
                                       IF seed.id = s1.id \/ seed.id = s2.id
                                       THEN [seed EXCEPT !.quantity = seed.quantity - 1]
                                       ELSE seed),
                                 LAMBDA seed : seed.quantity > 0)
          IN /\ seeds' = Append(consumed, newSeed)
             /\ gameStats' = countExperiment(gameStats)
             /\ selectedSeed1' = <<>>
             /\ selectedSeed2' = <<>>
             /\ nextSeedId' = nextSeedId + 1
             /\ UNCHANGED <<plants, buds, gameTime, phase, pending, nextPlantId, nextBudId>>
             /\ Save


-----------------------------------------------------------------------------
(* The earlier version of the component (part_000) has the same state, with *)
(* the bud items called `inventory`, the same research and conversion       *)
(* handlers, and a plantSeed(seedId?, strain?) whose strain branch buys and *)
(* plants a catalog strain in one call.                                     *)

\* part_000: the strain names of the shop cards
catalogStrains == <<<<"Indica", "Classic">>, <<"Sativa", "Power">>, <<"Hybrid", "Dream">>,
                    <<"Auto", "Flower">>, <<"CBD", "Special">>, <<"THC", "Monster">>>>

\* part_000: generateGenetics; pick[l] is Math.floor(Math.random() * 3) + 1
generateGenetics(pick) ==
  [yield |-> <<"AA", "Aa", "aa">>[pick.yield],
   speed |-> <<"BB", "Bb", "bb">>[pick.speed],
   potency |-> <<"CC", "Cc", "cc">>[pick.potency]]

\* part_000: plantSeed(undefined, strain)
plantStrain(strain, pick, roll) ==
  /\ phase = "run"
  /\ IF gameStats.money < CatalogPlantCost
     THEN Rejected
     ELSE LET genetics == generateGenetics(pick)
          IN /\ plants' = Append(plants,
                              [id |-> nextPlantId, name |-> strain, stage |-> "seed",
                               progress |-> 0, genetics |-> genetics,
                               traits |-> calculateTraits(genetics, roll),
                               plantedAt |-> gameTime])
             /\ gameStats' = [gameStats EXCEPT !.money = gameStats.money - CatalogPlantCost]
             /\ nextPlantId' = nextPlantId + 1
             /\ UNCHANGED <<buds, seeds, gameTime, selectedSeed1, selectedSeed2, phase,
                            pending, nextSeedId, nextBudId>>
             /\ Save

-----------------------------------------------------------------------------

Init ==
  /\ plants = <<>>
  /\ buds = <<>>
  /\ seeds = <<>>
  /\ gameStats = initialStats
  /\ gameTime = Epoch
  /\ selectedSeed1 = <<>>
  /\ selectedSeed2 = <<>>
  /\ storage = <<>>
  /\ phase = "boot"
  /\ pending = <<>>
  /\ nextSeedId = 1
  /\ nextPlantId = 1
  /\ nextBudId = 1

\* The random draws that are explored
BoundedDraws ==
  [pick : [Loci -> BOOLEAN],
   mut : {m \in [Loci -> 0..3] : Cardinality({l \in Loci : m[l] # 0}) <= MaxMutations},
   roll : [Loci -> 0..MaxRoll]]

Purchased(seed) == seed.isKnownGenetics /\ Len(seed.name) = 2

\* The part of the state space that Spec explores
Bounded ==
  /\ Created <= MaxCreated
  /\ TicksDone <= MaxTicks
  /\ SleepUnitsDone <= MaxSleepUnits
  /\ \A i \in DOMAIN seeds : Purchased(seeds[i]) => seeds[i].quantity <= MaxQty

Next ==
  \/ Mount
  \/ Rerender
  \/ Reload
  \/ Tick /\ Bounded'
  \/ \E hours \in {6, 12} : sleepHours(hours) /\ Bounded'
  \/ \E i \in 1..NumStrains : buySeed(i) /\ Bounded'
  \/ \E seedId \in 1..MaxCreated : plantSeed(seedId) /\ Bounded'
  \/ \E plantId \in 1..MaxCreated : harvestPlant(plantId) /\ Bounded'
  \/ \E itemId \in 1..MaxCreated : sellBuds(itemId)
  \/ \E itemId \in 1..MaxCreated : convertBudsToSeeds(itemId) /\ Bounded'
  \/ \E itemId \in 1..MaxCreated, labType \in {"cheap", "premium"} :
       researchBuds(itemId, labType)
  \/ \E value \in 1..MaxCreated : selectSeed1(value)
  \/ \E value \in 1..MaxCreated : selectSeed2(value)
  \/ clearSeed1
  \/ clearSeed2
  \/ \E d \in BoundedDraws : crossbreedSeeds(d) /\ Bounded'

Spec == Init /\ [][Next]_vars

\* The part of the state space that SpecGrow explores
GrowBounded ==
  /\ Created <= GrowMaxCreated
  /\ TicksDone <= GrowMaxTicks
  /\ SleepUnitsDone <= GrowMaxSleepUnits
  /\ \A i \in DOMAIN seeds :
       seeds[i].quantity <= 1 /\ seeds[i].createdAt <= Epoch + GrowMaxBuyClock

\* Planting, growth and harvest over a whole growth window
NextGrow ==
  \/ Mount \/ Rerender \/ Reload
  \/ Tick /\ GrowBounded'
  \/ \E hours \in {6, 12} : sleepHours(hours) /\ GrowBounded'
  \/ \E i \in 1..GrowNumStrains : buySeed(i) /\ GrowBounded'
  \/ \E seedId \in 1..GrowMaxCreated : plantSeed(seedId) /\ GrowBounded'
  \/ \E plantId \in 1..GrowMaxCreated : harvestPlant(plantId) /\ GrowBounded'

SpecGrow == Init /\ [][NextGrow]_vars

\* A game saved by an earlier session: OG Kush and Lemon Haze bought one
\* minute in, OG Kush planted
SavedGame ==
  [plants |-> <<[id |-> 1, name |-> storeStrains[1].name, stage |-> "seed",
                 progress |-> 0, genetics |-> storeStrains[1].genetics,
                 traits |-> storeStrains[1].traits, plantedAt |-> Epoch + 1]>>,
   buds |-> <<>>,
   seeds |-> <<[id |-> 2, name |-> storeStrains[2].name, quantity |-> 1,
                genetics |-> storeStrains[2].genetics,
                traits |-> storeStrains[2].traits, isKnownGenetics |-> TRUE,
                createdAt |-> Epoch + 1]>>,
   gameStats |-> [initialStats EXCEPT
                    !.money = StartMoney - storeStrains[1].price - storeStrains[2].price],
   gameTime |-> Epoch + 1]

Fields == {"plants", "buds", "seeds", "gameStats", "gameTime"}

\* What the slot may hold when a session starts: nothing, the saved game or
\* a part of its fields, or text that is not a snapshot
StoredSlots ==
  {<<>>, <<NotJson>>, <<JsonNull>>}
    \cup {<<[k \in K |-> SavedGame[k]]>> : K \in SUBSET Fields \ {{}}}

InitLoad ==
  /\ plants = <<>>
  /\ buds = <<>>
  /\ seeds = <<>>
  /\ gameStats = initialStats
  /\ gameTime = Epoch
  /\ selectedSeed1 = <<>>
  /\ selectedSeed2 = <<>>
  /\ storage \in StoredSlots
  /\ phase = "boot"
  /\ pending = <<>>
  /\ nextSeedId = 3
  /\ nextPlantId = 2
  /\ nextBudId = 1

\* The start of a session over any slot, and the first actions after it
NextLoad ==
  \/ Mount
  \/ Rerender
  \/ Tick /\ Bounded'
  \/ \E i \in 1..NumStrains : buySeed(i) /\ Bounded'
  \/ \E seedId \in 1..MaxCreated : plantSeed(seedId) /\ Bounded'

SpecLoad == InitLoad /\ [][NextLoad]_vars

\* The catalog entries, labs and random draws that SpecShop explores
ShopStrains == {1, 6}

ShopPicks == {G(3, 1, 3)}

ShopRolls == {G(0, 0, 0)}

\* The part of the state space that SpecShop explores
ShopBounded ==
  /\ Created <= ShopMaxCreated
  /\ TicksDone <= ShopMaxTicks
  /\ SleepUnitsDone <= ShopMaxSleepUnits
  /\ \A i \in DOMAIN seeds : seeds[i].quantity <= ShopMaxQty

\* Buying, growing, harvesting, researching, converting and selling until
\* the money is spent, with the catalog planting of the earlier version
NextShop ==
  \/ Mount
  \/ Tick /\ ShopBounded'
  \/ sleepHours(12) /\ ShopBounded'
  \/ \E i \in ShopStrains : buySeed(i) /\ ShopBounded'
  \/ \E seedId \in 1..ShopMaxCreated : plantSeed(seedId) /\ ShopBounded'
  \/ \E plantId \in 1..ShopMaxCreated : harvestPlant(plantId) /\ ShopBounded'
  \/ \E itemId \in 1..ShopMaxCreated : sellBuds(itemId)
  \/ \E itemId \in 1..ShopMaxCreated : convertBudsToSeeds(itemId) /\ ShopBounded'
  \/ \E itemId \in 1..ShopMaxCreated, labType \in {"cheap", "premium"} :
       researchBuds(itemId, labType)
  \/ \E pick \in ShopPicks, roll \in ShopRolls :
       plantStrain(catalogStrains[1], pick, roll) /\ ShopBounded'

SpecShop == Init /\ [][NextShop]_vars

\* The part of the state space that SpecBreed explores
BreedBounded ==
  /\ Created <= BreedMaxCreated
  /\ \A i \in DOMAIN seeds : seeds[i].quantity <= BreedMaxQty

\* Buying two strains, choosing the parents in either order and one
\* crossbreed, with every outcome of its random draws
NextBreed ==
  \/ Mount
  \/ \E i \in 1..BreedNumStrains : buySeed(i) /\ BreedBounded'
  \/ /\ gameStats.crossbreedingAttempts < BreedMaxAttempts
     /\ \/ \E value \in 1..BreedMaxCreated : selectSeed1(value)
        \/ \E value \in 1..BreedMaxCreated : selectSeed2(value)
        \/ \E d \in Draws : crossbreedSeeds(d) /\ BreedBounded'

SpecBreed == Init /\ [][NextBreed]_vars

\* The catalog entries that SpecLive explores: speed 9 and speed 10
LiveStrains == {1, 3}

\* The part of the state space that SpecLive explores: the growth window of
\* every plant ends within the ticks that are explored
LiveBounded ==
  /\ Created <= LiveMaxCreated
  /\ TicksDone <= LiveMaxTicks
  /\ SleepUnitsDone <= LiveMaxSleepUnits
  /\ \A i \in DOMAIN seeds :
       seeds[i].quantity <= 1 /\ seeds[i].createdAt <= Epoch + LiveMaxBuyClock
  /\ \A i \in DOMAIN plants :
       ((plants[i].plantedAt - Epoch) % SleepIncrement(6))
         + (120 - plants[i].traits.speed * 10) <= LiveMaxTicks

NextLive ==
  \/ Mount
  \/ Tick /\ LiveBounded'
  \/ sleepHours(6) /\ LiveBounded'
  \/ \E i \in LiveStrains : buySeed(i) /\ LiveBounded'
  \/ \E seedId \in 1..LiveMaxCreated : plantSeed(seedId) /\ LiveBounded'
  \/ \E plantId \in 1..LiveMaxCreated : harvestPlant(plantId) /\ LiveBounded'

\* The catalog entry that SpecMerge explores: Lemon Haze
MergeStrains == {2}

\* The part of the state space that SpecMerge explores
MergeBounded ==
  /\ Created <= MergeMaxCreated
  /\ TicksDone <= MergeMaxTicks
  /\ SleepUnitsDone <= MergeMaxSleepUnits
  /\ \A i \in DOMAIN seeds :
       seeds[i].quantity <= MergeMaxQty /\ seeds[i].createdAt <= Epoch + MergeMaxBuyClock

\* Buying, crossbreeding, planting and harvesting bought and bred seeds
NextMerge ==
  \/ Mount
  \/ Tick /\ MergeBounded'
  \/ sleepHours(12) /\ MergeBounded'
  \/ \E i \in MergeStrains : buySeed(i) /\ MergeBounded'
  \/ \E value \in 1..MergeMaxCreated : selectSeed1(value)
  \/ \E value \in 1..MergeMaxCreated : selectSeed2(value)
  \/ \E d \in BoundedDraws : crossbreedSeeds(d) /\ MergeBounded'
  \/ \E seedId \in 1..MergeMaxCreated : plantSeed(seedId) /\ MergeBounded'
  \/ \E plantId \in 1..MergeMaxCreated : harvestPlant(plantId) /\ MergeBounded'

SpecMerge == Init /\ [][NextMerge]_vars

\* setInterval fires as long as the component is mounted: a tick that can
\* happen does happen
SpecLive == Init /\ [][NextLive]_vars /\ WF_vars(Tick /\ LiveBounded')

-----------------------------------------------------------------------------
(* Properties *)

Running == phase = "run" /\ phase' = "run"

Ids(s) == {s[i].id : i \in DOMAIN s}

\* the quantity of the stack with this id, 0 when there is none
Qty(s, id) == IF \E i \in DOMAIN s : s[i].id = id
              THEN (CHOOSE e \in Range(s) : e.id = id).quantity
              ELSE 0

\* a step of crossbreedSeeds that passed its guard
CrossbreedStep ==
  /\ Running
  /\ gameStats'.crossbreedingAttempts = gameStats.crossbreedingAttempts + 1

Parents == {selectedSeed1[1].id, selectedSeed2[1].id}

\* C1 (as claimed): a successful crossbreed takes one unit from the stack of
\* each selected parent in the seed collection, removing a stack that reaches
\* 0, and adds exactly one stack of quantity 1 with unknown genetics; the
\* other stacks are unchanged.
C1_CrossbreedConsumesParents ==
  [][CrossbreedStep =>
       /\ selectedSeed1 # <<>>
       /\ selectedSeed2 # <<>>
       /\ \A p \in Parents :
            /\ Qty(seeds, p) >= 1
            /\ Qty(seeds', p) = Qty(seeds, p) - 1
            /\ p \in Ids(seeds') <=> Qty(seeds, p) > 1
       /\ \E n \in Range(seeds') :
            /\ n.id \notin Ids(seeds)
            /\ n.quantity = 1
            /\ n.isKnownGenetics = FALSE
            /\ Ids(seeds') \ Ids(seeds) = {n.id}
       /\ \A e \in Range(seeds) : e.id \notin Parents => e \in Range(seeds')
  ]_vars

\* a selected parent has no stack, or no unit, in the seed collection
ParentMissing ==
  \/ selectedSeed1 = <<>>
  \/ selectedSeed2 = <<>>
  \/ Qty(seeds, selectedSeed1[1].id) < 1
  \/ Qty(seeds, selectedSeed2[1].id) < 1

\* C2 (as claimed): crossbreedSeeds invoked while a selected parent is not in
\* the seed collection, or has no unit left, changes neither the seeds nor
\* the stats.
C2_CrossbreedNoOpWithoutParent ==
  [][(ParentMissing /\ \E d \in BoundedDraws : crossbreedSeeds(d))
       => UNCHANGED <<seeds, gameStats>>]_vars

Harvestable(plantId) ==
  \E i \in DOMAIN plants : plants[i].id = plantId /\ plants[i].stage = "harvest"

\* C3: harvestPlant on an id that is not among the live plants, or on a plant
\* whose stage is not harvest, leaves plants, seeds, bud items, stats and
\* clock as they are.
C3_HarvestNoOp ==
  [][\A plantId \in 1..MaxCreated :
       (harvestPlant(plantId) /\ ~Harvestable(plantId)) => UNCHANGED game]_vars

\* a plant that cannot be harvested is live while the clock has advanced
C3_Witness ==
  /\ phase = "run"
  /\ gameTime > Epoch
  /\ \E i \in DOMAIN plants : plants[i].stage # "harvest"

\* C4: selling an item of the collection credits yield*potency*10*quantity
\* when it is researched and 50*quantity when it is not, removes the item and
\* changes nothing else; selling an id that is not there changes nothing.
C4_SellCredits ==
  [][\A itemId \in 1..MaxCreated :
       sellBuds(itemId) =>
         IF itemId \in Ids(buds)
         THEN LET item == CHOOSE e \in Range(buds) : e.id = itemId
                  credit == IF item.isResearched
                            THEN item.traits.yield * item.traits.potency * 10
                                   * item.quantity
                            ELSE 50 * item.quantity
              IN /\ gameStats' = [gameStats EXCEPT !.money = gameStats.money + credit]
                 /\ buds' = SelectSeq(buds, LAMBDA e : e # item)
                 /\ UNCHANGED <<plants, seeds, gameTime>>
         ELSE UNCHANGED game]_vars

\* OG Kush bought, grown, harvested, researched in the cheap lab and sold
C4_Witness ==
  LET strain == storeStrains[1]
  IN /\ buds = <<>>
     /\ gameStats.totalHarvested = 1
     /\ gameStats.money = StartMoney - strain.price - CheapCost
          + strain.traits.yield * strain.traits.potency * 10 * strain.traits.yield

C6_ProgressMonotone ==
  [][\A i \in DOMAIN plants, j \in DOMAIN plants' :
       plants[i].id = plants'[j].id =>
         /\ plants'[j].progress >= plants[i].progress
         /\ plants'[j].progress >= 0
         /\ plants'[j].progress <= 100 * ProgressScale]_vars

\* a plant part of the way through its growth window
C6_Witness ==
  \E i \in DOMAIN plants :
    plants[i].progress > 0 /\ plants[i].progress < 100 * ProgressScale

StageRank(stage) ==
  CASE stage = "seed" -> 0
    [] stage = "sprout" -> 1
    [] stage = "vegetative" -> 2
    [] stage = "flowering" -> 3
    [] stage = "harvest" -> 4

\* C7: from one state to the next the stage of a live plant does not go back
\* in the order seed, sprout, vegetative, flowering, harvest.
C7_StageMonotone ==
  [][\A i \in DOMAIN plants, j \in DOMAIN plants' :
       plants[i].id = plants'[j].id =>
         StageRank(plants'[j].stage) >= StageRank(plants[i].stage)]_vars

C7_Witness == \E i \in DOMAIN plants : plants[i].stage = "flowering"

\* the stage the thresholds give for a progress in percent
StageAt(percent) ==
  IF percent >= 80 * ProgressScale THEN "harvest"
  ELSE IF percent >= 60 * ProgressScale THEN "flowering"
  ELSE IF percent >= 30 * ProgressScale THEN "vegetative"
  ELSE IF percent >= 10 * ProgressScale THEN "sprout"
  ELSE "seed"

\* C8: the stage of every live plant is the threshold function of its
\* progress.
C8_StageOfProgress ==
  \A i \in DOMAIN plants : plants[i].stage = StageAt(plants[i].progress)

C8_Witness ==
  \E i \in DOMAIN plants :
    plants[i].stage = "harvest" /\ plants[i].progress = 80 * ProgressScale

\* the interval callback ran
TickStep == Running /\ gameTime' = gameTime + TickIncrement

\* min(100, elapsed / (120 - 10 * speed) * 100) in units of 1/ProgressScale
ProgressAt(elapsed, speed) ==
  LET exact == (elapsed * 100 * ProgressScale) \div (120 - 10 * speed)
  IN IF exact > 100 * ProgressScale THEN 100 * ProgressScale ELSE exact

\* C9 (as claimed): after a tick the progress of every live plant is the one
\* derived from the clock after that tick.
C9_ProgressFromClockAfterTick ==
  [][TickStep =>
       \A j \in DOMAIN plants' :
         plants'[j].progress =
           ProgressAt(gameTime' - plants'[j].plantedAt, plants'[j].traits.speed)]_vars

\* the band of an allele-pair token
Band(token) ==
  CASE token \in {"AA", "BB", "CC"} -> 8..10
    [] token \in {"Aa", "Bb", "Cc"} -> 5..7
    [] token \in {"aa", "bb", "cc"} -> 2..4

InBand(e) == \A l \in Loci : e.traits[l] \in Band(e.genetics[l])

\* C10 (as claimed): every trait score of every seed, plant and bud item is in
\* the band of the entity's token for that trait.
C10_TraitsInBand ==
  /\ \A i \in DOMAIN seeds : InBand(seeds[i])
  /\ \A i \in DOMAIN plants : InBand(plants[i])
  /\ \A i \in DOMAIN buds : InBand(buds[i])

\* C13: once the game runs the clock never goes back, and it changes only
\* by a tick, which adds 60000 ms (one unit), or by sleepHours(h), which adds
\* h*3600000 ms (60*h units): buying, planting, harvesting, selling,
\* converting, researching and crossbreeding leave it as it is.
C13_ClockAdvances ==
  [][Running =>
       \/ gameTime' = gameTime
       \/ gameTime' = gameTime + 1 /\ Tick
       \/ \E hours \in {6, 12} : gameTime' = gameTime + 60 * hours /\ sleepHours(hours)]_vars

\* a 12 hour sleep and a tick went by, and a bud item was harvested
C13_Witness ==
  /\ phase = "run"
  /\ gameTime = Epoch + 12 * 60 + 1
  /\ gameStats.totalHarvested = 1

\* C16: research on an unresearched item of the collection with enough money
\* sets its isResearched and nothing else of the collection, debits 100
\* (cheap) or 500 (premium) and adds 1 to experimentsCount; nothing else
\* changes, so the two tiers differ in the debit only.
C16_ResearchFlips ==
  [][\A itemId \in 1..MaxCreated, labType \in {"cheap", "premium"} :
       LET cost == IF labType = "cheap" THEN 100 ELSE 500
       IN (/\ researchBuds(itemId, labType)
           /\ itemId \in Ids(buds)
           /\ \A e \in Range(buds) : e.id = itemId => ~e.isResearched
           /\ gameStats.money >= cost)
          => /\ buds' = [k \in DOMAIN buds |->
                           IF buds[k].id = itemId
                           THEN [buds[k] EXCEPT !.isResearched = TRUE]
                           ELSE buds[k]]
             /\ gameStats' = [gameStats EXCEPT
                                !.money = gameStats.money - cost,
                                !.experimentsCount = gameStats.experimentsCount + 1]
             /\ UNCHANGED <<plants, seeds, gameTime>>]_vars

\* an OG Kush harvest researched in the premium lab
C16_Witness ==
  /\ \E k \in DOMAIN buds : buds[k].isResearched
  /\ gameStats.experimentsCount = 1
  /\ gameStats.money = StartMoney - storeStrains[1].price - PremiumCost

\* C17 (as claimed): after a conversion the bud item is still in the
\* collection, with a smaller quantity, and an item leaves the collection
\* only when it is sold.
C17_ConversionKeepsItem ==
  [][Running =>
       \A item \in Range(buds) :
         /\ (convertBudsToSeeds(item.id) /\ gameStats.money >= ConvertCost)
              => \E kept \in Range(buds') :
                   kept.id = item.id /\ kept.quantity < item.quantity
         /\ item.id \notin Ids(buds') => sellBuds(item.id)]_vars

\* C17 (amended): a conversion takes the whole bud item out of the collection
\* and appends one seed stack of floor(quantity / 2) units with the item's
\* genetics and traits; an item leaves the collection only when it is sold
\* or converted.
C17_ConversionConsumesItem ==
  [][Running =>
       \A item \in Range(buds) :
         /\ (convertBudsToSeeds(item.id) /\ gameStats.money >= ConvertCost)
              => /\ item.id \notin Ids(buds')
                 /\ Len(seeds') = Len(seeds) + 1
                 /\ SubSeq(seeds', 1, Len(seeds)) = seeds
                 /\ seeds'[Len(seeds')].quantity = item.quantity \div 2
                 /\ seeds'[Len(seeds')].genetics = item.genetics
                 /\ seeds'[Len(seeds')].traits = item.traits
         /\ item.id \notin Ids(buds')
              => sellBuds(item.id) \/ convertBudsToSeeds(item.id)]_vars

\* the only bud item was converted into seeds
C17_Witness ==
  /\ phase = "run"
  /\ buds = <<>>
  /\ \E k \in DOMAIN seeds : seeds[k].name[Len(seeds[k].name)] = "(semena)"

\* C19: in every state a render and its effects lead to, the saved blob is
\* the live snapshot; a session that finds a saved game reads it at mount and
\* ends the load with that game as its state and as the saved blob.
C19_SavedIsLive ==
  [][/\ phase' = "run" => storage' = <<Stringify(Snapshot')>>
     /\ (phase = "boot" /\ storage # <<>>) => (phase' = "loading" /\ pending' = storage)
     /\ (phase = "loading" /\ phase' = "run")
          => (Stringify(Snapshot') = pending[1] /\ storage' = pending)]_vars

\* between mount and the render that applies the load: the slot holds the
\* initial values, the saved game with its seeds is still to be applied
C19_Witness ==
  /\ phase = "loading"
  /\ pending[1].seeds # <<>>
  /\ pending[1].gameTime > Epoch
  /\ storage[1].seeds = <<>>

\* the step that takes both selected parents and clears the selection
BreedStep ==
  /\ Running
  /\ selectedSeed1 # <<>> /\ selectedSeed2 # <<>>
  /\ selectedSeed1' = <<>> /\ selectedSeed2' = <<>>

\* C20: a crossbreed that produces a seed adds 1 to crossbreedingAttempts and
\* 1 to experimentsCount and leaves money, totalHarvested, bestYield and
\* bestPotency as they are; a crossbreed that returns early changes no
\* counter.
C20_CrossbreedCounters ==
  [][/\ BreedStep =>
          gameStats' = [gameStats EXCEPT
            !.crossbreedingAttempts = gameStats.crossbreedingAttempts + 1,
            !.experimentsCount = gameStats.experimentsCount + 1]
     /\ (~BreedStep /\ gameStats' # gameStats)
          => ~ \E d \in BoundedDraws : crossbreedSeeds(d)]_vars

\* one crossbreed of bought seeds
C20_Witness ==
  /\ gameStats.crossbreedingAttempts = 1
  /\ gameStats.experimentsCount = 1
  /\ \E k \in DOMAIN seeds : ~seeds[k].isKnownGenetics

C12_FlagsStay ==
  [][/\ \A k \in DOMAIN seeds, j \in DOMAIN seeds' :
          (seeds[k].id = seeds'[j].id /\ seeds[k].isKnownGenetics)
            => seeds'[j].isKnownGenetics
     /\ \A k \in DOMAIN buds, j \in DOMAIN buds' :
          (buds[k].id = buds'[j].id /\ buds[k].isResearched)
            => buds'[j].isResearched]_vars

\* a researched item next to a later harvest of the same strain, and a known
\* stack that was bought twice
C12_Witness ==
  /\ \E k, j \in DOMAIN buds :
       buds[k].name = buds[j].name /\ buds[k].isResearched /\ ~buds[j].isResearched
  /\ \E k \in DOMAIN seeds : seeds[k].isKnownGenetics

Money == gameStats.money

LabPrice(labType) == IF labType = "cheap" THEN 100 ELSE 500

\* C14: a purchase, a research, a conversion or a catalog planting invoked
\* with less money than it costs changes nothing; with enough money, and the
\* item there, the debit and the change of the collection are made in the
\* same step.
C14_PricedActions ==
  [][\/ UNCHANGED vars
     \/ /\ \A i \in DOMAIN storeStrains :
             buySeed(i) =>
               /\ Money >= storeStrains[i].price
               /\ Money' = Money - storeStrains[i].price
               /\ seeds' # seeds
        /\ \A itemId \in 1..ShopMaxCreated, labType \in {"cheap", "premium"} :
             researchBuds(itemId, labType) =>
               /\ Money >= LabPrice(labType)
               /\ Money' = Money - LabPrice(labType)
               /\ buds' # buds
        /\ \A itemId \in 1..ShopMaxCreated :
             convertBudsToSeeds(itemId) =>
               /\ Money >= 100
               /\ Money' = Money - 100
               /\ itemId \notin Ids(buds')
               /\ Len(seeds') = Len(seeds) + 1
        /\ \A pick \in ShopPicks, roll \in ShopRolls :
             plantStrain(catalogStrains[1], pick, roll) =>
               /\ Money >= 50
               /\ Money' = Money - 50
               /\ Len(plants') = Len(plants) + 1]_vars

\* the money is spent while an unresearched bud item waits, after a research
\* was paid for: every priced action is now short of money
C14_Witness ==
  /\ Money < 50
  /\ \E k \in DOMAIN buds : ~buds[k].isResearched
  /\ gameStats.experimentsCount >= 1

RECURSIVE Units(_)
\* the seed units of a collection
Units(s) == IF s = <<>> THEN 0 ELSE Head(s).quantity + Units(Tail(s))

\* C15: buying strain S with enough money debits S.price and nothing else of
\* the stats, and either adds 1 to the known-genetics stack named S.name or,
\* without such a stack, appends a stack of 1 with S's genetics and traits,
\* known; the seed units grow by 1, the other stacks, the plants, the bud
\* items and the clock are unchanged.
C15_Purchase ==
  [][\/ UNCHANGED vars
     \/ \A i \in DOMAIN storeStrains :
          (buySeed(i) /\ Money >= storeStrains[i].price) =>
            LET S == storeStrains[i]
                Known(e) == e.name = S.name /\ e.isKnownGenetics
            IN /\ gameStats' = [gameStats EXCEPT !.money = Money - S.price]
               /\ IF \E e \in Range(seeds) : Known(e)
                  THEN /\ Len(seeds') = Len(seeds)
                       /\ \E k \in DOMAIN seeds :
                            /\ Known(seeds[k])
                            /\ seeds' = [seeds EXCEPT ![k].quantity = seeds[k].quantity + 1]
                  ELSE /\ Len(seeds') = Len(seeds) + 1
                       /\ SubSeq(seeds', 1, Len(seeds)) = seeds
                       /\ LET n == seeds'[Len(seeds')]
                          IN /\ n.name = S.name /\ n.quantity = 1 /\ n.isKnownGenetics
                             /\ n.genetics = S.genetics /\ n.traits = S.traits
               /\ Units(seeds') = Units(seeds) + 1
               /\ UNCHANGED <<plants, buds, gameTime>>]_vars

\* a stack bought three times next to a stack bought once
C15_Witness ==
  /\ \E k, j \in DOMAIN seeds :
       /\ seeds[k].quantity = 3 /\ seeds[j].quantity = 1
       /\ seeds[k].isKnownGenetics /\ seeds[j].isKnownGenetics
  /\ Money = StartMoney - 3 * storeStrains[6].price - storeStrains[1].price

Defaults ==
  [plants |-> <<>>, buds |-> <<>>, seeds |-> <<>>, gameStats |-> initialStats,
   gameTime |-> Epoch]

\* C18 (as claimed): the load never fails; without a slot the state is the
\* initial one, a snapshot with some of the five fields loads those and
\* leaves the others at their initial values, and a slot that is not a
\* snapshot gives the initial state.
C18_LoadNeverFails ==
  [][/\ phase = "boot" =>
          /\ phase' # "crashed"
          /\ (storage = <<>> \/ Throws(storage[1]))
               => (phase' = "run" /\ Snapshot' = Defaults)
     /\ (phase = "loading" /\ phase' = "run") =>
          \A k \in Fields :
            Snapshot'[k] = IF k \in DOMAIN pending[1] THEN pending[1][k] ELSE Defaults[k]]_vars

\* the three tier tokens of a locus
TierTokens(l) ==
  CASE l = "yield" -> {"AA", "Aa", "aa"}
    [] l = "speed" -> {"BB", "Bb", "bb"}
    [] l = "potency" -> {"CC", "Cc", "cc"}

NoDraw == [l \in Loci |-> 0]

\* C21: at each locus the token of a bred seed is parent 1's, parent 2's or
\* one of the three tier tokens of that locus; every combination of parent
\* choices over the three loci is an outcome; the traits of the bred seed
\* are a sample of its own genetics.
C21_OffspringTokens ==
  [][BreedStep =>
       LET A == selectedSeed1[1]
           B == selectedSeed2[1]
           n == seeds'[Len(seeds')]
       IN /\ \A l \in Loci :
               n.genetics[l] \in {A.genetics[l], B.genetics[l]} \cup TierTokens(l)
          /\ \E roll \in [Loci -> 0..2] : n.traits = calculateTraits(n.genetics, roll)
          /\ \A c \in [Loci -> BOOLEAN] :
               hybridGenetics(A, B, [pick |-> c, mut |-> NoDraw, roll |-> NoDraw])
                 = [l \in Loci |-> IF c[l] THEN A.genetics[l] ELSE B.genetics[l]]]_vars

\* OG Kush x Lemon Haze: yield of the first, speed of the second, potency
\* mutated, traits drawn for these tokens
C21_Witness ==
  \E k \in DOMAIN seeds :
    /\ ~seeds[k].isKnownGenetics
    /\ seeds[k].genetics = G(storeStrains[1].genetics.yield,
                             storeStrains[2].genetics.speed, "Cc")
    /\ seeds[k].traits = G(7, 3, 6)

\* the genetics a crossbreed of A and B can give
Genotypes(A, B) ==
  {hybridGenetics(A, B, [pick |-> p, mut |-> m, roll |-> NoDraw]) :
     p \in [Loci -> BOOLEAN], m \in [Loci -> 0..3]}

\* the genetics and traits a crossbreed of A and B can give
Offspring(A, B) ==
  {<<g, calculateTraits(g, r)>> : g \in Genotypes(A, B), r \in [Loci -> 0..2]}

\* C22: whichever two seeds are chosen as parents, the genetics and traits
\* the crossbreed can give are those it can give with the parents exchanged.
C22_Symmetric ==
  (phase = "run" /\ selectedSeed1 # <<>> /\ selectedSeed2 # <<>>) =>
    Offspring(selectedSeed1[1], selectedSeed2[1])
      = Offspring(selectedSeed2[1], selectedSeed1[1])

\* two seeds that differ at every locus are the parents, the one bought
\* last as parent 1
C22_Witness ==
  /\ selectedSeed1 # <<>> /\ selectedSeed2 # <<>>
  /\ selectedSeed1[1].id > selectedSeed2[1].id
  /\ \A l \in Loci : selectedSeed1[1].genetics[l] # selectedSeed2[1].genetics[l]

\* C23 (as claimed): every bud item is worth more researched than
\* unresearched.
C23_UnknownSellsForLess ==
  \A k \in DOMAIN buds :
    basePrice([buds[k] EXCEPT !.isResearched = FALSE]) * buds[k].quantity
      < basePrice([buds[k] EXCEPT !.isResearched = TRUE]) * buds[k].quantity

\* C24: planting from a stack that is in the collection with at least one
\* unit takes one unit from that stack, which goes when it is empty, and
\* appends one plant in stage seed with progress 0, planted at the current
\* clock, with the seed's genetics and traits; the stats and the other
\* stacks are unchanged.  Planting an id that is not there changes nothing.
C24_Planting ==
  [][\/ UNCHANGED vars
     \/ \A seedId \in 1..ShopMaxCreated :
          plantSeed(seedId) =>
            /\ seedId \in Ids(seeds)
            /\ Qty(seeds, seedId) >= 1
            /\ LET seed == CHOOSE e \in Range(seeds) : e.id = seedId
                   plant == plants'[Len(plants')]
               IN /\ Len(plants') = Len(plants) + 1
                  /\ SubSeq(plants', 1, Len(plants)) = plants
                  /\ plant.stage = "seed"
                  /\ plant.progress = 0
                  /\ plant.plantedAt = gameTime
                  /\ plant.genetics = seed.genetics
                  /\ plant.traits = seed.traits
            /\ Qty(seeds', seedId) = Qty(seeds, seedId) - 1
            /\ seedId \in Ids(seeds') <=> Qty(seeds, seedId) > 1
            /\ Units(seeds') = Units(seeds) - 1
            /\ \A e \in Range(seeds) : e.id # seedId => e \in Range(seeds')
            /\ Len(seeds') <= Len(seeds)
            /\ UNCHANGED <<gameStats, buds, gameTime>>]_vars

\* three OG Kush bought, one of them planted a minute into the game
C24_Witness ==
  /\ Money = StartMoney - 3 * storeStrains[1].price
  /\ \E k \in DOMAIN seeds : seeds[k].quantity = 2
  /\ \E k \in DOMAIN plants :
       plants[k].traits = storeStrains[1].traits /\ plants[k].plantedAt = Epoch + 1

\* C25: the harvest of a plant in stage harvest removes that plant and no
\* other, adds the plant's yield to the units of the bud items, adds 1 to
\* totalHarvested, makes bestYield and bestPotency the larger of their value
\* and the plant's trait, and leaves money, seeds and clock as they are.
C25_Harvest ==
  [][\/ UNCHANGED vars
     \/ \A plantId \in 1..ShopMaxCreated :
          (harvestPlant(plantId) /\ Harvestable(plantId)) =>
            LET P == CHOOSE e \in Range(plants) : e.id = plantId
            IN /\ plants' = SelectSeq(plants, LAMBDA e : e # P)
               /\ Len(plants') = Len(plants) - 1
               /\ Units(buds') = Units(buds) + P.traits.yield
               /\ gameStats'.totalHarvested = gameStats.totalHarvested + 1
               /\ gameStats'.bestYield =
                    (IF gameStats.bestYield >= P.traits.yield
                     THEN gameStats.bestYield ELSE P.traits.yield)
               /\ gameStats'.bestPotency =
                    (IF gameStats.bestPotency >= P.traits.potency
                     THEN gameStats.bestPotency ELSE P.traits.potency)
               /\ Money' = Money
               /\ gameStats'.experimentsCount = gameStats.experimentsCount
               /\ gameStats'.crossbreedingAttempts = gameStats.crossbreedingAttempts
               /\ UNCHANGED <<seeds, gameTime>>]_vars

\* Gorilla Glue (yield 10) was harvested before a plant of yield 2
C25_Witness ==
  /\ gameStats.totalHarvested = 2
  /\ gameStats.bestYield = storeStrains[6].traits.yield
  /\ Len(buds) = 2
  /\ buds[1].traits = storeStrains[6].traits
  /\ buds[2].traits.yield < buds[1].traits.yield

\* C26: a tick adds 60000 ms to the clock and gives every plant a progress
\* and a stage; the plants are the same, in the same order, with the same
\* id, name, genetics, traits and plantedAt, also those in stage harvest;
\* seeds, bud items and stats are unchanged.
C26_TickFrame ==
  [][Tick =>
       /\ gameTime' = gameTime + 1
       /\ Len(plants') = Len(plants)
       /\ \A k \in DOMAIN plants :
            plants'[k] = [plants[k] EXCEPT !.progress = plants'[k].progress,
                                           !.stage = plants'[k].stage]
       /\ UNCHANGED <<seeds, buds, gameStats>>]_vars

\* a plant in stage harvest at 100 percent: ticks went on after it was ripe
C26_Witness ==
  \E k \in DOMAIN plants :
    /\ plants[k].stage = "harvest"
    /\ plants[k].progress = 100 * ProgressScale
    /\ gameTime < Epoch + SleepIncrement(6)

\* C29: the money is never negative.
C29_MoneyNotNegative == gameStats.money >= 0

\* five Gorilla Glue bought: the money is spent to the last unit
C29_Witness ==
  /\ gameStats.money = 0
  /\ \E k \in DOMAIN seeds : seeds[k].quantity = 5

\* C30 (as claimed): after a crossbreed the seed units are those before
\* minus 1, however the two parents were chosen.
C30_CrossbreedUnits ==
  [][BreedStep => Units(seeds') = Units(seeds) - 1]_vars

Live(plantId) == \E i \in DOMAIN plants : plants[i].id = plantId

\* C27: with ticks that keep coming, every plant gets to stage harvest,
\* whatever sleeps, purchases, plantings and harvests happen in between, and
\* a plant in stage harvest stays in that stage as long as it is there.
C27_EventuallyHarvest ==
  /\ \A plantId \in 1..LiveMaxCreated : Live(plantId) ~> Harvestable(plantId)
  /\ [][\A i \in DOMAIN plants, j \in DOMAIN plants' :
          (plants[i].id = plants'[j].id /\ plants[i].stage = "harvest")
            => plants'[j].stage = "harvest"]_vars

\* a ripe plant next to a plant that is still flowering
C27_Witness ==
  \E i, j \in DOMAIN plants :
    plants[i].stage = "harvest" /\ plants[j].stage = "flowering"

\* C28 (as claimed): after the harvest of a plant the bud items include an
\* unresearched item with the plant's name, genetics and traits, also when
\* the yield went into an item that was there.
C28_HarvestKeepsGenetics ==
  [][\/ UNCHANGED vars
     \/ \A plantId \in 1..MergeMaxCreated :
          (harvestPlant(plantId) /\ Harvestable(plantId)) =>
            LET P == CHOOSE e \in Range(plants) : e.id = plantId
            IN \E item \in Range(buds') :
                 /\ ~item.isResearched
                 /\ item.name = P.name
                 /\ item.genetics = P.genetics
                 /\ item.traits = P.traits]_vars

====
